---- MODULE Spec2Model ----
(***************************************************************************)
(* Model of the Aina RAG service (rag_service/main.py) and of the index    *)
(* builder it calls (rag_service/build_dynamic_index.py).                  *)
(*                                                                         *)
(* Every endpoint is an `async def` coroutine whose body contains no       *)
(* `await`: the event loop runs each handler to completion before it       *)
(* starts another one, so one handler call is one action of the model.     *)
(*                                                                         *)
(* Text is a sequence of one-character strings, so that lower(), strip()   *)
(* and " ".join() are computed and not assumed.  A Python Optional value   *)
(* is a sequence of length at most one: None is << >>, a value x is <<x>>. *)
(***************************************************************************)
EXTENDS Integers, Sequences, FiniteSets, TLC

(***************************************************************************)
(* Bounds of the model.                                                    *)
(***************************************************************************)
MaxTokens == 5

MaxK == 2

(***************************************************************************)
(* Python values.                                                          *)
(***************************************************************************)
None == << >>

Some(x) == << x >>

IsNone(o) == Len(o) = 0

Val(o) == o[1]

\* str.lower(), one character: the letters the model's texts are written in
LowerChar(c) ==
  CASE c = "F" -> "f"
    [] c = "C" -> "c"
    [] c = "I" -> "i"
    [] c = "V" -> "v"
    [] c = "E" -> "e"
    [] c = "M" -> "m"
    [] c = "N" -> "n"
    [] c = "O" -> "o"
    [] c = "R" -> "r"
    [] c = "T" -> "t"
    [] OTHER -> c

\* str.lower()
Lower(s) == [i \in 1..Len(s) |-> LowerChar(s[i])]

IsSpaceChar(c) == c = " "

RECURSIVE LStrip(_)
LStrip(s) ==
  IF Len(s) > 0 /\ IsSpaceChar(s[1]) THEN LStrip(Tail(s)) ELSE s

RECURSIVE RStrip(_)
RStrip(s) ==
  IF Len(s) > 0 /\ IsSpaceChar(s[Len(s)])
  THEN RStrip(SubSeq(s, 1, Len(s) - 1))
  ELSE s

\* str.strip()
Strip(s) == RStrip(LStrip(s))

\* sep.join(parts)
RECURSIVE Join(_, _)
Join(parts, sep) ==
  IF Len(parts) = 0 THEN << >>
  ELSE IF Len(parts) = 1 THEN parts[1]
  ELSE parts[1] \o sep \o Join(Tail(parts), sep)

\* s.split(',')
RECURSIVE SplitComma(_, _)
SplitComma(s, cur) ==
  IF Len(s) = 0 THEN << cur >>
  ELSE IF s[1] = "," THEN << cur >> \o SplitComma(Tail(s), << >>)
  ELSE SplitComma(Tail(s), Append(cur, s[1]))

\* [f(x) for x in xs]
MapStrip(xs) == [i \in 1..Len(xs) |-> Strip(xs[i])]

\* [x for x in xs if x]
RECURSIVE NonEmpty(_)
NonEmpty(xs) ==
  IF Len(xs) = 0 THEN << >>
  ELSE IF Len(xs[1]) > 0 THEN << xs[1] >> \o NonEmpty(Tail(xs))
  ELSE NonEmpty(Tail(xs))

\* The last n where the first n are meant.
Take_Last(xs, n) ==
  SubSeq(xs, IF Len(xs) < n THEN 1 ELSE Len(xs) - n + 1, Len(xs))

\* xs[:n]
Take(xs, n) == SubSeq(xs, 1, IF Len(xs) < n THEN Len(xs) ELSE n)

\* xs[i] if i < len(xs) else ""   (i counted from 1)
At(xs, i) == IF i <= Len(xs) THEN xs[i] ELSE << >>

(***************************************************************************)
(* Glossary normalizer: build_dynamic_index.prepare_glossary_for_          *)
(* vectorization.  A raw entry carries its variants either as a list or as *)
(* a comma-separated string: [kind |-> "list" or "str", val |-> ...].      *)
(***************************************************************************)
NAN == << "n", "a", "n" >>

SPACE == << " " >>

\* lines 35-37: the variants of one raw entry
NormalizeVariants(v) ==
  IF v.kind = "str"
  THEN NonEmpty(MapStrip(SplitComma(v.val, << >>)))
  ELSE v.val

\* lines 42-67: the metadata object of one raw entry
Metadata(entry) ==
  LET correct   == MapStrip(Take(entry.exemples_correctes, 3))
      incorrect == MapStrip(Take(entry.exemples_incorrectes, 2))
  IN  [ id                     |-> entry.id,
        terme_recomanat        |-> Strip(entry.terme_recomanat),
        variants_no_normatives |-> NormalizeVariants(entry.variants_no_normatives),
        context_d_us           |-> Strip(entry.context_d_us),
        categoria              |-> Strip(entry.categoria),
        ambit                  |-> Strip(entry.ambit),
        comentari              |-> Strip(entry.notes_linguistiques),
        font                   |-> Strip(entry.font),
        exemple_1              |-> At(correct, 1),
        exemple_2              |-> At(correct, 2),
        exemple_3              |-> At(correct, 3),
        exemple_incorrecte_1   |-> At(incorrect, 1),
        exemple_incorrecte_2   |-> At(incorrect, 2) ]

\* lines 75-89: the text one raw entry is embedded from
TextCombinat(entry) ==
  LET terme    == Strip(entry.terme_recomanat)
      variants == NormalizeVariants(entry.variants_no_normatives)
      context  == Strip(entry.context_d_us)
      parts    == << terme >>
                  \o variants
                  \o MapStrip(NonEmpty(entry.exemples_incorrectes))
                  \o (IF Len(context) > 0 /\ context # NAN
                      THEN << context >> ELSE << >>)
  IN  Join(parts, SPACE)

\* lines 28-32: entries without a recommended term are skipped
KeepsEntry(entry) == Len(Strip(entry.terme_recomanat)) > 0

\* returns [glossari |-> metadata objects, texts |-> texts to embed]
RECURSIVE prepare_glossary_for_vectorization(_)
prepare_glossary_for_vectorization(glossary_data) ==
  IF Len(glossary_data) = 0 THEN [glossari |-> << >>, texts |-> << >>]
  ELSE LET rest  == prepare_glossary_for_vectorization(Tail(glossary_data))
           entry == Head(glossary_data)
       IN  IF KeepsEntry(entry)
           THEN [glossari |-> << Metadata(entry) >> \o rest.glossari,
                 texts    |-> << TextCombinat(entry) >> \o rest.texts]
           ELSE rest

(***************************************************************************)
(* Variant lookup: main.build_variants_lookup.  The dict is a function     *)
(* from keys to records; a later write to a key replaces the earlier one.  *)
(***************************************************************************)
LookupRecord(entry, variant) ==
  [ id               |-> entry.id,
    terme_recomanat  |-> entry.terme_recomanat,
    categoria        |-> entry.categoria,
    context          |-> entry.context_d_us,
    variant_original |-> variant ]

\* A key that keeps the variant's case.
VariantKey_KeepsCase(variant) == Strip(variant)

\* line 51
VariantKey(variant) == Strip(Lower(variant))

\* A loop that keeps the record a key already has.
RECURSIVE AddVariants_FirstWins(_, _, _)
AddVariants_FirstWins(lookup, entry, variants) ==
  IF Len(variants) = 0 THEN lookup
  ELSE LET variant == Head(variants)
           next == IF Len(variant) > 0
                   THEN lookup @@ (VariantKey(variant) :> LookupRecord(entry, variant))
                   ELSE lookup
       IN  AddVariants_FirstWins(next, entry, Tail(variants))

\* lines 49-58: the variants of one entry, in order
RECURSIVE AddVariants(_, _, _)
AddVariants(lookup, entry, variants) ==
  IF Len(variants) = 0 THEN lookup
  ELSE LET variant == Head(variants)
           next == IF Len(variant) > 0
                   THEN (VariantKey(variant) :> LookupRecord(entry, variant)) @@ lookup
                   ELSE lookup
       IN  AddVariants(next, entry, Tail(variants))

RECURSIVE AddEntries(_, _)
AddEntries(lookup, entries) ==
  IF Len(entries) = 0 THEN lookup
  ELSE AddEntries(AddVariants(lookup, Head(entries),
                              Head(entries).variants_no_normatives),
                  Tail(entries))

build_variants_lookup(glossari_data) == AddEntries(<< >>, glossari_data)

(***************************************************************************)
(* Vector index.  The embedding model and FAISS are opaque: a vector is    *)
(* identified by the text it was computed from, an index by its vectors in *)
(* insertion order.                                                        *)
(***************************************************************************)
Embed(text) == [of |-> text]

\* build_dynamic_index lines 121-130: encode, IndexFlatIP, add
IndexOf(texts) == [vecs |-> [i \in 1..Len(texts) |-> Embed(texts[i])]]

ntotal(idx) == Len(idx.vecs)

(***************************************************************************)
(* State.  The five module globals of main.py, the two persisted files,    *)
(* whether the service process is serving, and the last call with its      *)
(* response (what a caller observes).                                      *)
(***************************************************************************)
VARIABLES phase, model, index, glossari, nlp_model, variants_lookup,
          index_file, metadata_file, last

vars == << phase, model, index, glossari, nlp_model, variants_lookup,
           index_file, metadata_file, last >>

generation == << index, glossari, variants_lookup >>

files == << index_file, metadata_file >>

MODEL_NAME == "ST-NLI-ca_paraphrase-multilingual-mpnet-base"

\* A call and its response, with every field present for every operation.
\* build is what build_index_from_data returned to the call, if it was called;
\* rows is the CSV file a run of build_index.py read.
\* status is the HTTP status; detail the HTTPException's detail; fault says
\* that an exception left the handler other than as an HTTPException.
NoCall ==
  [ op |-> "none", status |-> 0, detail |-> "", fault |-> FALSE,
    success |-> FALSE, error |-> None,
    glossary |-> << >>, failed_at |-> "none", raised |-> FALSE,
    glossaryEntries |-> 0, vectorizedEntries |-> 0, build |-> None,
    rows |-> None,
    doc |-> << >>, context_window |-> 0, candidates |-> << >>,
    nlp_model_used |-> "",
    queries |-> << >>, k |-> 0, threshold |-> 0, hits |-> << >>,
    results |-> << >>,
    ready_for_search |-> FALSE, ready_for_nlp_detection |-> FALSE,
    glossary_entries |-> 0, variants_count |-> 0 ]

\* raise HTTPException(status_code, detail)
HTTPException(call, status_code, detail) ==
  [call EXCEPT !.status = status_code, !.detail = detail]

\* main.py lines 26-30
Init ==
  /\ phase = "down"
  /\ model = None
  /\ index = None
  /\ glossari = None
  /\ nlp_model = None
  /\ variants_lookup = None
  /\ index_file = None
  /\ metadata_file = None
  /\ last = NoCall

(***************************************************************************)
(* load_models: the startup event.  model_ok says whether the embedding    *)
(* model loads; spacy is the spaCy model found (None when neither the      *)
(* transformer model nor the small one is installed).                      *)
(***************************************************************************)
SpacyModels == { None, Some("ca_core_news_trf"), Some("ca_core_news_sm") }

Startup(model_ok, spacy) ==
  /\ phase = "down"
  /\ IF ~model_ok
     THEN /\ last' = [NoCall EXCEPT !.op = "startup", !.fault = TRUE]
          /\ UNCHANGED << phase, model, index, glossari, nlp_model,
                          variants_lookup >>
     ELSE /\ phase' = "up"
          /\ model' = Some(MODEL_NAME)
          /\ nlp_model' = spacy
          /\ index' = index_file
          /\ glossari' = metadata_file
          /\ variants_lookup' =
               IF IsNone(metadata_file) THEN None
               ELSE Some(build_variants_lookup(Val(metadata_file)))
          /\ last' = [NoCall EXCEPT !.op = "startup"]
  /\ UNCHANGED files

\* The process ends; the next one starts from the module's initial globals.
Restart ==
  /\ phase = "up"
  /\ phase' = "down"
  /\ model' = None
  /\ index' = None
  /\ glossari' = None
  /\ nlp_model' = None
  /\ variants_lookup' = None
  /\ last' = [NoCall EXCEPT !.op = "restart"]
  /\ UNCHANGED files

(***************************************************************************)
(* build_dynamic_index.build_index_from_data.  fail names the step that    *)
(* raises ("none": no step does).  The result carries the two files as the *)
(* call leaves them.                                                       *)
(***************************************************************************)
BuildFailPoints == { "encode", "write_index", "write_meta" }

ReloadFailPoints == { "read_index", "read_meta" }

FailPoints == { "none" } \cup BuildFailPoints \cup ReloadFailPoints

\* A build without the test of line 111: no entries give an empty index and
\* an empty store.
build_index_from_data_NoEmptyTest(glossary_data, fail) ==
  LET p == prepare_glossary_for_vectorization(glossary_data)
      failure(msg, idxf, n) ==
        [ success |-> FALSE, error |-> msg, embedded |-> n,
          glossaryEntries |-> 0, vectorizedEntries |-> 0,
          index_file |-> idxf, metadata_file |-> metadata_file ]
  IN  IF fail = "encode"
      THEN failure("encode: error", index_file, 0)
      ELSE IF fail = "write_index"
      THEN failure("write_index: error", index_file, Len(p.texts))
      ELSE IF fail = "write_meta"
      THEN failure("pickle.dump: error", Some(IndexOf(p.texts)), Len(p.texts))
      ELSE [ success |-> TRUE, error |-> "", embedded |-> Len(p.texts),
             glossaryEntries |-> Len(glossary_data),
             vectorizedEntries |-> Len(p.glossari),
             index_file |-> Some(IndexOf(p.texts)),
             metadata_file |-> Some(p.glossari) ]

\* embedded is the number of texts model.encode returned vectors for.
build_index_from_data(glossary_data, fail) ==
  LET p == prepare_glossary_for_vectorization(glossary_data)
      failure(msg, idxf, n) ==
        [ success |-> FALSE, error |-> msg, embedded |-> n,
          glossaryEntries |-> 0, vectorizedEntries |-> 0,
          index_file |-> idxf, metadata_file |-> metadata_file ]
  IN  IF Len(p.glossari) = 0
      THEN failure("No valid glossary entries to vectorize", index_file, 0)
      ELSE IF fail = "encode"
      THEN failure("encode: error", index_file, 0)
      ELSE IF fail = "write_index"
      THEN failure("write_index: error", index_file, Len(p.texts))
      ELSE IF fail = "write_meta"
      THEN failure("pickle.dump: error", Some(IndexOf(p.texts)), Len(p.texts))
      ELSE [ success |-> TRUE, error |-> "", embedded |-> Len(p.texts),
             glossaryEntries |-> Len(glossary_data),
             vectorizedEntries |-> Len(p.glossari),
             index_file |-> Some(IndexOf(p.texts)),
             metadata_file |-> Some(p.glossari) ]

(***************************************************************************)
(* build_index.build_index: the offline build of the two files from the    *)
(* CSV file.  A row gives one cell per column; a cell is an Optional text:  *)
(* an empty field is read by pandas as NaN (None here), and str(NaN) is     *)
(* 'nan'.                                                                  *)
(***************************************************************************)
\* str(row.get(column, '')).strip()
CellText(cell) == Strip(IF IsNone(cell) THEN NAN ELSE Val(cell))

\* line 52
CsvVariants(terme_incorrecte) ==
  IF Len(terme_incorrecte) > 0
  THEN MapStrip(SplitComma(terme_incorrecte, << >>))
  ELSE << >>

\* lines 49-63
CsvEntrada(row) ==
  [ id                     |-> CellText(row.ID),
    terme_recomanat        |-> CellText(row.Terme_recomanat),
    variants_no_normatives |-> CsvVariants(CellText(row.Terme_no_normatiu)),
    context_d_us           |-> CellText(row.context_d_us),
    categoria              |-> CellText(row.Categoria),
    ambit                  |-> CellText(row.Ambit),
    comentari              |-> CellText(row.Comentari),
    font                   |-> CellText(row.Font),
    exemple_1              |-> CellText(row.Exemple_1),
    exemple_2              |-> CellText(row.Exemple_2),
    exemple_3              |-> CellText(row.Exemple_3),
    exemple_incorrecte_1   |-> CellText(row.Exemple_incorrecte_1),
    exemple_incorrecte_2   |-> CellText(row.Exemple_incorrecte_2) ]

\* lines 68-72
CsvText(row) ==
  LET terme_recomanat  == CellText(row.Terme_recomanat)
      context          == CellText(row.context_d_us)
      terme_incorrecte == CellText(row.Terme_no_normatiu)
  IN  terme_recomanat
      \o (IF Len(context) > 0 /\ context # NAN
          THEN SPACE \o context ELSE << >>)
      \o (IF Len(terme_incorrecte) > 0 /\ terme_incorrecte # NAN
          THEN SPACE \o terme_incorrecte ELSE << >>)

\* lines 45-46
CsvKeepsRow(row) == Len(CellText(row.Terme_recomanat)) > 0

\* lines 38-74: returns [glossari |-> entries, texts |-> texts to embed]
RECURSIVE CsvEntries(_)
CsvEntries(rows) ==
  IF Len(rows) = 0 THEN [glossari |-> << >>, texts |-> << >>]
  ELSE LET rest == CsvEntries(Tail(rows))
           row  == Head(rows)
       IN  IF CsvKeepsRow(row)
           THEN [glossari |-> << CsvEntrada(row) >> \o rest.glossari,
                 texts    |-> << CsvText(row) >> \o rest.texts]
           ELSE rest

\* build_index(): csv is the file read (None: no file, or one that cannot be
\* read); fail names the step that raises.  Nothing after line 74 is in a
\* try block; with no entry the encoder returns no matrix and line 86 raises.
build_index(csv, fail) ==
  /\ fail \in { "none" } \cup BuildFailPoints
  /\ IsNone(csv) => fail = "none"
  /\ LET call == [NoCall EXCEPT !.op = "build_index", !.rows = csv,
                                !.failed_at = fail]
     IN  IF IsNone(csv)
         THEN /\ last' = call
              /\ UNCHANGED files
         ELSE LET p == CsvEntries(Val(csv)) IN
              IF Len(p.glossari) = 0 \/ fail \in { "encode", "write_index" }
              THEN /\ last' = [call EXCEPT !.fault = TRUE]
                   /\ UNCHANGED files
              ELSE IF fail = "write_meta"
              THEN /\ last' = [call EXCEPT !.fault = TRUE]
                   /\ index_file' = Some(IndexOf(p.texts))
                   /\ UNCHANGED metadata_file
              ELSE /\ last' = [call EXCEPT !.success = TRUE]
                   /\ index_file' = Some(IndexOf(p.texts))
                   /\ metadata_file' = Some(p.glossari)
  /\ UNCHANGED << phase, model, index, glossari, nlp_model, variants_lookup >>

(***************************************************************************)
(* vectorize, lines 460-467: the reload of the persisted files into the    *)
(* globals, one assignment after the other.  raised says whether a step    *)
(* raised; the globals assigned before it keep their new values.           *)
(***************************************************************************)
\* A reload that assigns the index and the lookup and leaves the entry store.
Reload_KeepsGlossari(fail, idxf, metaf) ==
  IF fail = "read_index"
  THEN [ raised |-> TRUE, error |-> "read_index: error",
         index |-> index, glossari |-> glossari,
         variants_lookup |-> variants_lookup ]
  ELSE IF fail = "read_meta"
  THEN [ raised |-> TRUE, error |-> "pickle.load: error",
         index |-> idxf, glossari |-> glossari,
         variants_lookup |-> variants_lookup ]
  ELSE [ raised |-> FALSE, error |-> "",
         index |-> idxf, glossari |-> glossari,
         variants_lookup |-> Some(build_variants_lookup(Val(metaf))) ]

\* A reload that leaves the lookup to a later reload_variants call.
Reload_KeepsLookup(fail, idxf, metaf) ==
  IF fail = "read_index"
  THEN [ raised |-> TRUE, error |-> "read_index: error",
         index |-> index, glossari |-> glossari,
         variants_lookup |-> variants_lookup ]
  ELSE IF fail = "read_meta"
  THEN [ raised |-> TRUE, error |-> "pickle.load: error",
         index |-> idxf, glossari |-> glossari,
         variants_lookup |-> variants_lookup ]
  ELSE [ raised |-> FALSE, error |-> "",
         index |-> idxf, glossari |-> metaf,
         variants_lookup |-> variants_lookup ]

Reload(fail, idxf, metaf) ==
  IF fail = "read_index"
  THEN [ raised |-> TRUE, error |-> "read_index: error",
         index |-> index, glossari |-> glossari,
         variants_lookup |-> variants_lookup ]
  ELSE IF fail = "read_meta"
  THEN [ raised |-> TRUE, error |-> "pickle.load: error",
         index |-> idxf, glossari |-> glossari,
         variants_lookup |-> variants_lookup ]
  ELSE [ raised |-> FALSE, error |-> "",
         index |-> idxf, glossari |-> metaf,
         variants_lookup |-> Some(build_variants_lookup(Val(metaf))) ]

\* line 438
EmptyRequest(glossary) == Len(glossary) = 0

\* The step named by fail is one the call gets to.
Reaches(glossary, fail) ==
  \/ fail = "none"
  \/ /\ ~EmptyRequest(glossary)
     /\ Len(prepare_glossary_for_vectorization(glossary).glossari) > 0

\* lines 444-487: the rebuild of a request that is not empty
Rebuild(call0, glossary, fail) ==
  LET result == build_index_from_data(glossary, fail)
      call   == [call0 EXCEPT !.build =
                   Some([ success  |-> result.success,
                          error    |-> result.error,
                          embedded |-> result.embedded ])]
  IN
  /\ index_file' = result.index_file
  /\ metadata_file' = result.metadata_file
  /\ IF ~result.success
     THEN /\ last' = HTTPException(call, 500,
                       "Vectorization failed: " \o result.error)
          /\ UNCHANGED << index, glossari, variants_lookup >>
     ELSE LET r == Reload(fail, result.index_file, result.metadata_file) IN
          /\ index' = r.index
          /\ glossari' = r.glossari
          /\ variants_lookup' = r.variants_lookup
          /\ last' = IF r.raised
                     THEN HTTPException(call, 500, r.error)
                     ELSE [call EXCEPT
                             !.status = 200,
                             !.success = TRUE,
                             !.glossaryEntries = result.glossaryEntries,
                             !.vectorizedEntries = result.vectorizedEntries]

\* A vectorize that drops the loaded generation before it looks at the request.
Vectorize_ClearsFirst(glossary, fail) ==
  /\ phase = "up"
  /\ Reaches(glossary, fail)
  /\ LET call == [NoCall EXCEPT !.op = "vectorize", !.glossary = glossary,
                                !.failed_at = fail]
     IN  IF EmptyRequest(glossary)
         THEN /\ last' = HTTPException(call, 400, "No glossary data provided")
              /\ index' = None
              /\ glossari' = None
              /\ variants_lookup' = None
              /\ UNCHANGED files
         ELSE Rebuild(call, glossary, fail)
  /\ UNCHANGED << phase, model, nlp_model >>

Vectorize(glossary, fail) ==
  /\ phase = "up"
  /\ Reaches(glossary, fail)
  /\ LET call == [NoCall EXCEPT !.op = "vectorize", !.glossary = glossary,
                                !.failed_at = fail]
     IN  IF EmptyRequest(glossary)
         THEN /\ last' = HTTPException(call, 400, "No glossary data provided")
              /\ UNCHANGED << index, glossari, variants_lookup, files >>
         ELSE Rebuild(call, glossary, fail)
  /\ UNCHANGED << phase, model, nlp_model >>

(***************************************************************************)
(* reload_variants and health.                                             *)
(***************************************************************************)
\* Python truth value of an Optional list or dict: None and empty are false
Falsy(o) == IsNone(o) \/ Val(o) = << >>

\* len(d) of a dict
DictLen(d) == Cardinality(DOMAIN d)

ReloadVariants ==
  /\ phase = "up"
  /\ LET call == [NoCall EXCEPT !.op = "reload"] IN
     IF Falsy(glossari)
     THEN /\ last' = HTTPException(call, 503,
                       "No glossari loaded. Run vectorization first.")
          /\ UNCHANGED variants_lookup
     ELSE LET lookup == build_variants_lookup(Val(glossari)) IN
          /\ variants_lookup' = Some(lookup)
          /\ last' = [call EXCEPT !.status = 200, !.success = TRUE,
                                  !.variants_count = DictLen(lookup)]
  /\ UNCHANGED << phase, model, index, glossari, nlp_model, files >>

Health ==
  /\ phase = "up"
  /\ last' = [NoCall EXCEPT
       !.op = "health",
       !.status = 200,
       !.glossary_entries = IF Falsy(glossari) THEN 0 ELSE Len(Val(glossari)),
       !.ready_for_search =
           ~IsNone(model) /\ ~IsNone(index) /\ ~IsNone(glossari),
       !.variants_count =
           IF Falsy(variants_lookup) THEN 0 ELSE DictLen(Val(variants_lookup)),
       !.ready_for_nlp_detection =
           ~IsNone(nlp_model) /\ ~IsNone(variants_lookup) ]
  /\ UNCHANGED << phase, model, index, glossari, nlp_model, variants_lookup,
                  files >>

(***************************************************************************)
(* search.  hits is what index.search returns: for every query, k slots    *)
(* [idx, score]: the nearest vectors first, by descending score, then      *)
(* slots with idx -1 when the index holds fewer than k vectors.  Scores    *)
(* and the threshold are in hundredths.                                    *)
(***************************************************************************)
NoNeighbourScore == -1000

Min(a, b) == IF a < b THEN a ELSE b

Max(a, b) == IF a > b THEN a ELSE b

\* A row index.search can return for one query, k neighbours asked, over n
\* vectors.
ValidRow(row, n, k) ==
  /\ Len(row) = k
  /\ \A j \in 1..k :
       IF j <= Min(n, k)
       THEN row[j].idx \in 0..(n - 1) /\ row[j].score # NoNeighbourScore
       ELSE row[j].idx = -1 /\ row[j].score = NoNeighbourScore
  /\ \A j \in 1..(k - 1) : row[j].score >= row[j + 1].score
  /\ \A i, j \in 1..Min(n, k) : i # j => row[i].idx # row[j].idx

\* The rows with scores among `scores`.
FaissRows(n, k, scores) ==
  { row \in [1..k -> [idx : (0..(n - 1)) \cup {-1},
                     score : scores \cup {NoNeighbourScore}]] :
      ValidRow(row, n, k) }

\* What index.search can return for nq queries in the current state; nothing
\* when the call does not get to the search.
SearchReady == ~IsNone(model) /\ ~IsNone(index) /\ ~Falsy(glossari)

FaissHits(nq, k, scores) ==
  IF SearchReady
  THEN [1..nq -> FaissRows(ntotal(Val(index)), k, scores)]
  ELSE { << >> }

\* lines 204-219
MatchResult(entry, score) ==
  [ id                   |-> entry.id,
    terme_recomanat      |-> entry.terme_recomanat,
    similitud            |-> score,
    context              |-> entry.context_d_us,
    variants             |-> entry.variants_no_normatives,
    categoria            |-> entry.categoria,
    ambit                |-> entry.ambit,
    comentari            |-> entry.comentari,
    font                 |-> entry.font,
    exemple_1            |-> entry.exemple_1,
    exemple_2            |-> entry.exemple_2,
    exemple_3            |-> entry.exemple_3,
    exemple_incorrecte_1 |-> entry.exemple_incorrecte_1,
    exemple_incorrecte_2 |-> entry.exemple_incorrecte_2 ]

\* A test that lets a score equal to the threshold fall out.
Qualifies_Strict(score, threshold) == score > threshold

\* line 202
Qualifies(score, threshold) == score >= threshold

\* No test of the position: every slot is taken for a neighbour.
NoNeighbour_Never(idx) == FALSE

\* line 200
NoNeighbour(idx) == idx < 0

\* line 203: glossari[idx] is defined for -len <= idx < len (IndexError
\* otherwise); a negative idx counts from the end of the list
InRange(entries, idx) == -Len(entries) <= idx /\ idx < Len(entries)

EntryAt(entries, idx) ==
  entries[IF idx < 0 THEN Len(entries) + idx + 1 ELSE idx + 1]

\* A loop that puts every new match in front of the earlier ones.
RECURSIVE Matches_Prepends(_, _, _, _)
Matches_Prepends(row, j, threshold, entries) ==
  IF j > Len(row) THEN [raised |-> FALSE, matches |-> << >>]
  ELSE LET idx   == row[j].idx
           score == row[j].score
           rest  == Matches_Prepends(row, j + 1, threshold, entries)
       IN  IF NoNeighbour(idx) THEN rest
           ELSE IF Qualifies(score, threshold)
           THEN IF ~InRange(entries, idx)
                THEN [raised |-> TRUE, matches |-> << >>]
                ELSE [ raised  |-> rest.raised,
                       matches |-> IF rest.raised THEN << >>
                                   ELSE rest.matches
                                        \o << MatchResult(EntryAt(entries, idx),
                                                          score) >> ]
           ELSE rest

\* lines 196-219: the matches of one query; raised when glossari[idx] is out
\* of range (IndexError)
RECURSIVE Matches(_, _, _, _)
Matches(row, j, threshold, entries) ==
  IF j > Len(row) THEN [raised |-> FALSE, matches |-> << >>]
  ELSE LET idx   == row[j].idx
           score == row[j].score
           rest  == Matches(row, j + 1, threshold, entries)
       IN  IF NoNeighbour(idx) THEN rest
           ELSE IF Qualifies(score, threshold)
           THEN IF ~InRange(entries, idx)
                THEN [raised |-> TRUE, matches |-> << >>]
                ELSE [ raised  |-> rest.raised,
                       matches |-> IF rest.raised THEN << >>
                                   ELSE << MatchResult(EntryAt(entries, idx),
                                                       score) >>
                                        \o rest.matches ]
           ELSE rest

\* lines 194-221
SearchResults(queries, hits, threshold, entries) ==
  [ i \in 1..Len(queries) |->
      [ original |-> queries[i],
        raised   |-> Matches(hits[i], 1, threshold, entries).raised,
        matches  |-> Matches(hits[i], 1, threshold, entries).matches ] ]

Search(queries, k, threshold, hits) ==
  /\ phase = "up"
  /\ LET call == [NoCall EXCEPT !.op = "search", !.queries = queries,
                                !.k = k, !.threshold = threshold]
     IN  IF IsNone(model)
         THEN /\ hits = << >>
              /\ last' = HTTPException(call, 503, "Model no carregat.")
         ELSE IF IsNone(index) \/ Falsy(glossari)
         THEN /\ hits = << >>
              /\ last' = HTTPException(call, 503, "Index no disponible.")
         ELSE /\ Len(hits) = Len(queries)
              /\ \A i \in 1..Len(hits) :
                   ValidRow(hits[i], ntotal(Val(index)), k)
              /\ LET results == SearchResults(queries, hits, threshold,
                                              Val(glossari))
                 IN  last' =
                       IF \E i \in 1..Len(results) : results[i].raised
                       THEN [call EXCEPT !.status = 500, !.fault = TRUE,
                                         !.hits = hits]
                       ELSE [call EXCEPT
                               !.status = 200, !.success = TRUE, !.hits = hits,
                               !.results = [ i \in 1..Len(results) |->
                                   [ original |-> results[i].original,
                                     matches  |-> results[i].matches ] ] ]
  /\ UNCHANGED << phase, model, index, glossari, nlp_model, variants_lookup,
                  files >>

(***************************************************************************)
(* detect_candidates.  doc is what the spaCy model returns for the text:   *)
(* a sequence of tokens [text, lemma_, pos_, is_punct, is_space].          *)
(* Positions are counted from 0, as in the code.                           *)
(***************************************************************************)
\* doc[i:j]
Slice(doc, i, j) == SubSeq(doc, i + 1, j)

\* " ".join([t.text for t in tokens])
JoinTexts(tokens) ==
  Join([j \in 1..Len(tokens) |-> tokens[j].text], SPACE)

\* A context that takes every match for one token wide.
Context_OneToken(doc, i, size, context_window) ==
  LET start_ctx == Max(0, i - context_window)
      end_ctx   == Min(Len(doc), i + 1 + context_window)
  IN  JoinTexts(Slice(doc, start_ctx, end_ctx))

\* lines 283-285 and 336-338
Context(doc, i, size, context_window) ==
  LET start_ctx == Max(0, i - context_window)
      end_ctx   == Min(Len(doc), i + size + context_window)
  IN  JoinTexts(Slice(doc, start_ctx, end_ctx))

\* line 263: range(4, 1, -1)
NgramSizes == << 4, 3, 2 >>

\* A test of the window's first position only.
AlreadyDetected_FirstOnly(detected_positions, i, ngram_size) ==
  i \in detected_positions

\* line 266
AlreadyDetected(detected_positions, i, ngram_size) ==
  \E j \in i..(i + ngram_size - 1) : j \in detected_positions

\* lines 264-297: the windows of one size, from position i on
RECURSIVE ScanNgrams(_, _, _, _, _, _)
ScanNgrams(doc, lookup, context_window, ngram_size, i, st) ==
  IF i >= Len(doc) - ngram_size + 1 THEN st
  ELSE LET ngram_text  == JoinTexts(Slice(doc, i, i + ngram_size))
           ngram_lower == Lower(ngram_text)
           next ==
             IF AlreadyDetected(st.detected_positions, i, ngram_size) THEN st
             ELSE IF ngram_lower \in DOMAIN lookup
             THEN LET entry == lookup[ngram_lower] IN
                  [ detected_positions |->
                      st.detected_positions \cup (i..(i + ngram_size - 1)),
                    candidates |-> Append(st.candidates,
                      [ term            |-> ngram_text,
                        lemma           |-> ngram_lower,
                        position        |-> i,
                        context         |-> Context(doc, i, ngram_size,
                                                    context_window),
                        pos_tag         |-> "MWE",
                        glossary_id     |-> entry.id,
                        terme_recomanat |-> entry.terme_recomanat,
                        categoria       |-> entry.categoria,
                        source          |-> "nlp" ]) ]
             ELSE st
       IN  ScanNgrams(doc, lookup, context_window, ngram_size, i + 1, next)

\* lines 263-297: the first pass, one size after the other
RECURSIVE FirstPass(_, _, _, _, _)
FirstPass(doc, lookup, context_window, sizes, st) ==
  IF Len(sizes) = 0 THEN st
  ELSE FirstPass(doc, lookup, context_window, Tail(sizes),
                 ScanNgrams(doc, lookup, context_window, Head(sizes), 0, st))

\* A lookup that never tries the lemma.
Match_TextOnly(lookup, lemma, token_lower) ==
  IF token_lower \in DOMAIN lookup THEN Some(token_lower) ELSE None

\* A lookup that tries the token's text before its lemma.
Match_TextFirst(lookup, lemma, token_lower) ==
  IF token_lower \in DOMAIN lookup THEN Some(token_lower)
  ELSE IF lemma \in DOMAIN lookup THEN Some(lemma)
  ELSE None

\* lines 312-320: matched_form, None when neither form is a key
Match(lookup, lemma, token_lower) ==
  IF lemma \in DOMAIN lookup THEN Some(lemma)
  ELSE IF token_lower \in DOMAIN lookup THEN Some(token_lower)
  ELSE None

\* A check that drops a verb entry's match on a token that is not a verb.
CategoryRejects_Strict(match_entry, pos) ==
  Lower(match_entry.categoria) = << "v", "e", "r", "b" >>
    /\ pos \notin { "VERB", "AUX" }

\* lines 324-331: the branch of the category check is `pass`
CategoryRejects(match_entry, pos) == FALSE

\* lines 300-350: the second pass, from position i on
RECURSIVE SecondPass(_, _, _, _, _)
SecondPass(doc, lookup, context_window, i, st) ==
  IF i >= Len(doc) THEN st
  ELSE LET token        == doc[i + 1]
           lemma        == Lower(token.lemma_)
           token_lower  == Lower(token.text)
           matched_form == Match(lookup, lemma, token_lower)
           next ==
             IF i \in st.detected_positions THEN st
             ELSE IF token.is_punct \/ token.is_space THEN st
             ELSE IF IsNone(matched_form) THEN st
             ELSE IF CategoryRejects(lookup[Val(matched_form)], token.pos_)
             THEN st
             ELSE LET match_entry == lookup[Val(matched_form)] IN
                  [ detected_positions |-> st.detected_positions \cup {i},
                    candidates |-> Append(st.candidates,
                      [ term            |-> token.text,
                        lemma           |-> Val(matched_form),
                        position        |-> i,
                        context         |-> Context(doc, i, 1, context_window),
                        pos_tag         |-> token.pos_,
                        glossary_id     |-> match_entry.id,
                        terme_recomanat |-> match_entry.terme_recomanat,
                        categoria       |-> match_entry.categoria,
                        source          |-> "nlp" ]) ]
       IN  SecondPass(doc, lookup, context_window, i + 1, next)

\* No sort: the candidates stay in the order the two passes found them.
SortByPosition_Unsorted(cs) == cs

\* line 353: candidates.sort(key=position), a stable sort
RECURSIVE InsertByPosition(_, _)
InsertByPosition(sorted, c) ==
  IF Len(sorted) = 0 THEN << c >>
  ELSE IF sorted[Len(sorted)].position <= c.position THEN Append(sorted, c)
  ELSE Append(InsertByPosition(SubSeq(sorted, 1, Len(sorted) - 1), c),
              sorted[Len(sorted)])

RECURSIVE SortByPosition(_)
SortByPosition(cs) ==
  IF Len(cs) = 0 THEN << >>
  ELSE InsertByPosition(SortByPosition(SubSeq(cs, 1, Len(cs) - 1)), cs[Len(cs)])

\* lines 256-353: the candidates of a scan that does not raise
Detected(doc, lookup, context_window) ==
  LET st0 == [detected_positions |-> {}, candidates |-> << >>]
      st1 == FirstPass(doc, lookup, context_window, NgramSizes, st0)
      st2 == SecondPass(doc, lookup, context_window, 0, st1)
  IN  SortByPosition(st2.candidates)

\* line 240
NlpUnavailable == IsNone(nlp_model)

\* A test for an empty lookup that lets a missing one through.
LookupUnavailable_OnlyEmpty ==
  ~IsNone(variants_lookup) /\ Val(variants_lookup) = << >>

\* line 246
LookupUnavailable == Falsy(variants_lookup)

\* No except clause: the exception leaves the handler.
DetectionError_Propagates(call, message) ==
  [call EXCEPT !.status = 500, !.fault = TRUE]

\* lines 365-372: the except clause
DetectionError(call, message) ==
  [call EXCEPT !.status = 200, !.success = FALSE, !.candidates = << >>,
               !.nlp_model_used = "error", !.error = Some(message)]

\* The scan reads the lookup: some window or some token gets to a lookup test.
TouchesLookup(doc) ==
  \/ Len(doc) >= 2
  \/ \E j \in 1..Len(doc) : ~doc[j].is_punct /\ ~doc[j].is_space

\* lines 240-372: the response.  raises says that nlp_model(text) raises.
\* Calling a missing model or testing membership in a missing lookup is a
\* TypeError inside the try block.
DetectResponse(doc, context_window, raises) ==
  LET call == [NoCall EXCEPT !.op = "detect", !.doc = doc,
                             !.context_window = context_window,
                             !.raised = raises]
  IN  IF NlpUnavailable
      THEN HTTPException(call, 503, "Model NLP no carregat.")
      ELSE IF LookupUnavailable
      THEN HTTPException(call, 503, "Lookup de variants no disponible.")
      ELSE IF raises
      THEN DetectionError(call, "nlp: error")
      ELSE IF IsNone(nlp_model)
      THEN DetectionError(call, "'NoneType' object is not callable")
      ELSE IF IsNone(variants_lookup) /\ TouchesLookup(doc)
      THEN DetectionError(call, "argument of type 'NoneType' is not iterable")
      ELSE [call EXCEPT
              !.status = 200, !.success = TRUE,
              !.candidates =
                  IF IsNone(variants_lookup) THEN << >>
                  ELSE Detected(doc, Val(variants_lookup), context_window),
              !.nlp_model_used = Val(nlp_model)]

\* The lemmatizer is called, and returns a document, only in a call that gets
\* past the two readiness tests.
DetectInput(doc, raises) ==
  /\ (NlpUnavailable \/ LookupUnavailable \/ raises) => doc = << >>
  /\ raises => ~NlpUnavailable /\ ~LookupUnavailable /\ ~IsNone(nlp_model)

\* A handler that drops the lookup when the lemmatizer raises.
DetectCandidates_DropsLookup(doc, context_window, raises) ==
  /\ phase = "up"
  /\ DetectInput(doc, raises)
  /\ last' = DetectResponse(doc, context_window, raises)
  /\ variants_lookup' = IF raises THEN None ELSE variants_lookup
  /\ UNCHANGED << phase, model, index, glossari, nlp_model, files >>

DetectCandidates(doc, context_window, raises) ==
  /\ phase = "up"
  /\ DetectInput(doc, raises)
  /\ last' = DetectResponse(doc, context_window, raises)
  /\ UNCHANGED << phase, model, index, glossari, nlp_model, variants_lookup,
                  files >>

(***************************************************************************)
(* The requests the model issues.                                          *)
(***************************************************************************)
S_fet == << "f", "e", "t" >>

S_Fet == << "F", "e", "t" >>

S_i == << "i" >>

S_fet_i_fet == << "f", "e", "t", " ", "i", " ", "f", "e", "t" >>

S_conformar == << "c", "o", "n", "f", "o", "r", "m", "a", "r" >>

S_conformen == << "c", "o", "n", "f", "o", "r", "m", "e", "n" >>

RawEntry(id, terme, variants, categoria) ==
  [ id |-> id, terme_recomanat |-> terme,
    variants_no_normatives |-> [kind |-> "list", val |-> variants],
    context_d_us |-> << >>, categoria |-> categoria, ambit |-> << >>,
    notes_linguistiques |-> << >>, font |-> << >>,
    exemples_correctes |-> << >>, exemples_incorrectes |-> << >> ]

EntryFet == RawEntry("L001", << "d", "e", " ", "f", "e", "t", " " >>, << S_fet_i_fet, S_Fet >>, << "l", "o", "c" >>)

EntryFormar == RawEntry("V006", << "f", "o", "r", "m", "a", "r" >>, << S_conformar >>, << "v", "e", "r", "b" >>)

EntryBlank == RawEntry("X000", << " ", " " >>, << S_fet >>, << >>)

\* the glossaries of the vectorize requests
Glossaries ==
  { << >>, << EntryBlank >>, << EntryFet >>,
    << EntryFormar, EntryBlank, EntryFet >> }

Token(text, lemma, pos, punct) ==
  [ text |-> text, lemma_ |-> lemma, pos_ |-> pos, is_punct |-> punct,
    is_space |-> FALSE ]

TokFet == Token(S_fet, S_fet, "NOUN", FALSE)

TokI == Token(S_i, S_i, "CCONJ", FALSE)

TokConformen == Token(S_conformen, S_conformar, "VERB", FALSE)

TokComma == Token(<< "," >>, << "," >>, "PUNCT", TRUE)

\* the documents of the detect_candidates requests of the service model
ServiceDocs ==
  { << >>, << TokFet, TokI, TokFet >>, << TokConformen, TokComma, TokFet >> }

\* the candidate lists of the search requests of the service model
ServiceQueries == { << "q1" >>, << "q1", "q2" >> }

ServiceScores == { 79, 80 }

ServiceThresholds == { 80 }

MaxContextWindow == 1

Next ==
  \/ \E model_ok \in BOOLEAN, spacy \in SpacyModels : Startup(model_ok, spacy)
  \/ Restart
  \/ \E glossary \in Glossaries, fail \in FailPoints : Vectorize(glossary, fail)
  \/ ReloadVariants
  \/ Health
  \/ \E queries \in ServiceQueries, k \in 1..MaxK,
        threshold \in ServiceThresholds :
       \E hits \in FaissHits(Len(queries), k, ServiceScores) :
         Search(queries, k, threshold, hits)
  \/ \E doc \in ServiceDocs, context_window \in 0..MaxContextWindow,
        raises \in BOOLEAN :
       DetectCandidates(doc, context_window, raises)

Spec == Init /\ [][Next]_vars

(***************************************************************************)
(* The detector alone: a service with a published generation and a loaded  *)
(* lemmatizer receives one detect_candidates request.                      *)
(***************************************************************************)
S_i_fet == << "i", " ", "f", "e", "t" >>

S_fet_i_fet_i == << "f", "e", "t", " ", "i", " ", "f", "e", "t", " ", "i" >>

S_I == << "I" >>

EntryNgrams ==
  RawEntry("L002", << "i", " ", "t", "o", "t" >>, << S_i_fet, S_fet_i_fet_i, S_fet_i_fet, S_I >>,
           << "l", "o", "c" >>)

DetectGlossaries == { << EntryFet >>, << EntryNgrams >>, << EntryFormar, EntryFet >> }

DetectTokens == { TokFet, TokI, TokConformen, TokComma }

DetectDocs == UNION { [1..n -> DetectTokens] : n \in 0..MaxTokens }

InitDetect ==
  \E glossary \in DetectGlossaries, doc \in DetectDocs,
     context_window \in 0..MaxContextWindow :
    LET p == prepare_glossary_for_vectorization(glossary) IN
    /\ phase = "up"
    /\ model = Some(MODEL_NAME)
    /\ nlp_model = Some("ca_core_news_trf")
    /\ index = Some(IndexOf(p.texts))
    /\ glossari = Some(p.glossari)
    /\ variants_lookup = Some(build_variants_lookup(p.glossari))
    /\ index_file = index
    /\ metadata_file = glossari
    /\ last = [NoCall EXCEPT !.op = "request", !.doc = doc,
                             !.context_window = context_window]

DetectPending ==
  /\ last.op = "request"
  /\ DetectCandidates(last.doc, last.context_window, FALSE)

NextDetect == DetectPending

SpecDetect == InitDetect /\ [][NextDetect]_vars

(***************************************************************************)
(* The search alone: a started service receives one search request.  The   *)
(* index and the entry store are those of a build each; they are of two    *)
(* builds after a vectorize whose reload raised between the two reads.     *)
(***************************************************************************)
SearchGlossaries == { << EntryFet >>, << EntryFormar, EntryFet >> }

SearchScores == { 79, 80, 81 }

\* the sentinel's score and a value below it, and a value among the scores
SearchThresholds == { NoNeighbourScore - 1, NoNeighbourScore, 80 }

InitSearch ==
  \E index_glossary \in SearchGlossaries, store_glossary \in SearchGlossaries,
     queries \in ServiceQueries, k \in 1..MaxK,
     threshold \in SearchThresholds :
    LET pi == prepare_glossary_for_vectorization(index_glossary)
        ps == prepare_glossary_for_vectorization(store_glossary)
    IN  \E hits \in [1..Len(queries) ->
                       FaissRows(Len(pi.texts), k, SearchScores)] :
          /\ phase = "up"
          /\ model = Some(MODEL_NAME)
          /\ nlp_model = Some("ca_core_news_trf")
          /\ index = Some(IndexOf(pi.texts))
          /\ glossari = Some(ps.glossari)
          /\ variants_lookup = Some(build_variants_lookup(ps.glossari))
          /\ index_file = Some(IndexOf(pi.texts))
          /\ metadata_file = Some(pi.glossari)
          /\ last = [NoCall EXCEPT !.op = "request", !.queries = queries,
                                   !.k = k, !.threshold = threshold,
                                   !.hits = hits]

SearchPending ==
  /\ last.op = "request"
  /\ Search(last.queries, last.k, last.threshold, last.hits)

NextSearch == SearchPending

SpecSearch == InitSearch /\ [][NextSearch]_vars

(***************************************************************************)
(* The builds alone: a started service receives one vectorize request, or  *)
(* build_index.py is run once while the service is down.  prior is the     *)
(* glossary of the build whose files are on disk, if there is one.         *)
(***************************************************************************)
S_formar == << "f", "o", "r", "m", "a", "r" >>

S_sp_fet_sp == << " ", "f", "e", "t", " " >>

\* an entry with no recommended term at all
EntryNoTerm == RawEntry("X001", << >>, << S_conformar >>, << >>)

\* an entry whose variants list holds padded, empty and blank strings
EntrySpaces == RawEntry("S001", S_formar, << S_sp_fet_sp, << >>, SPACE >>, << >>)

\* an entry whose variants are one string in three spellings
EntryTwice ==
  RawEntry("T001", << "f", "e", "r" >>, << S_Fet, S_fet, << "F", "E", "T" >> >>, << >>)

MaxExamples == 4

\* the k-th example of a kind ("c" correct, "w" incorrect), padded
Example(kind, k) == << " ", kind >> \o [ j \in 1..k |-> "x" ] \o << " " >>

Examples(kind, n) == [ k \in 1..n |-> Example(kind, k) ]

\* the usage contexts: none, the placeholder, a padded text
Contexts == { << >>, NAN, << " ", "u", "s", " " >> }

\* an entry with nc correct examples, ni incorrect examples and a context
EntryExamples(nc, ni, context) ==
  [ RawEntry("E001", S_formar, << S_conformar, S_fet >>, << >>) EXCEPT
      !.exemples_correctes = Examples("c", nc),
      !.exemples_incorrectes = Examples("w", ni),
      !.context_d_us = context ]

ExampleGlossaries ==
  { << EntryBlank, EntryExamples(nc, ni, context), EntryFet >> :
      nc \in 0..MaxExamples, ni \in 0..MaxExamples, context \in Contexts }

BuildGlossaries ==
  { << >>, << EntryBlank >>, << EntryBlank, EntryNoTerm >>, << EntryFet >>,
    << EntryFormar, EntryBlank, EntryFet >>, << EntrySpaces >>,
    << EntryNoTerm, EntrySpaces >>, << EntryFet, EntrySpaces >>,
    << EntryTwice, EntrySpaces, EntryFet >>,
    << EntrySpaces, EntryFet, EntryTwice >> }
  \cup ExampleGlossaries

\* a CSV row: the cells of the three columns that differ, the others empty
Row(id, terme, incorrecte) ==
  [ ID |-> Some(id), Terme_recomanat |-> terme,
    Terme_no_normatiu |-> incorrecte, context_d_us |-> None,
    Categoria |-> None, Ambit |-> None, Comentari |-> None, Font |-> None,
    Exemple_1 |-> None, Exemple_2 |-> None, Exemple_3 |-> None,
    Exemple_incorrecte_1 |-> None, Exemple_incorrecte_2 |-> None ]

RowFet ==
  Row(<< "L", "1" >>, Some(<< "d", "e", " ", "f", "e", "t" >>),
      Some(S_fet_i_fet \o << ",", " " >> \o S_Fet))

\* the field of the recommended term is empty
RowEmptyTerm == Row(<< "X", "1" >>, None, Some(S_fet))

\* the field of the recommended term holds two spaces
RowBlankTerm == Row(<< "X", "2" >>, Some(<< " ", " " >>), Some(S_conformar))

\* "conformar,, fet"
RowGaps ==
  Row(<< "G", "1" >>, Some(S_formar),
      Some(S_conformar \o << ",", ",", " " >> \o S_fet))

RowNoVariants == Row(<< "N", "1" >>, Some(S_formar), None)

\* a row with a usage context and an incorrect example
RowContext ==
  [ Row(<< "C", "1" >>, Some(S_formar), Some(S_conformar)) EXCEPT
      !.context_d_us = Some(<< "u", "s" >>),
      !.Exemple_incorrecte_1 = Some(S_conformen) ]

CsvFiles ==
  { None, Some(<< >>), Some(<< RowFet >>), Some(<< RowEmptyTerm, RowFet >>),
    Some(<< RowBlankTerm >>), Some(<< RowBlankTerm, RowGaps >>),
    Some(<< RowNoVariants >>),
    Some(<< RowContext >>), Some(<< RowFet, RowContext >>) }

PriorBuilds == { None, Some(<< EntryFormar >>), Some(<< EntryFet >>) }

InitBuild ==
  \E prior \in PriorBuilds, up \in BOOLEAN,
     glossary \in BuildGlossaries, csv \in CsvFiles, fail \in FailPoints :
    LET p == prepare_glossary_for_vectorization(
               IF IsNone(prior) THEN << >> ELSE Val(prior))
    IN  /\ up => csv = None /\ Reaches(glossary, fail)
        /\ ~up => /\ glossary = << >>
                  /\ fail \in { "none" } \cup BuildFailPoints
                  /\ IsNone(csv) => fail = "none"
        /\ phase = IF up THEN "up" ELSE "down"
        /\ model = IF up THEN Some(MODEL_NAME) ELSE None
        /\ nlp_model = IF up THEN Some("ca_core_news_sm") ELSE None
        /\ index_file = IF IsNone(prior) THEN None ELSE Some(IndexOf(p.texts))
        /\ metadata_file = IF IsNone(prior) THEN None ELSE Some(p.glossari)
        /\ index = IF up THEN index_file ELSE None
        /\ glossari = IF up THEN metadata_file ELSE None
        /\ variants_lookup =
             IF up /\ ~IsNone(prior)
             THEN Some(build_variants_lookup(p.glossari)) ELSE None
        /\ last = [NoCall EXCEPT !.op = IF up THEN "request" ELSE "run",
                                 !.glossary = glossary, !.rows = csv,
                                 !.failed_at = fail]

VectorizePending ==
  /\ last.op = "request"
  /\ Vectorize(last.glossary, last.failed_at)

BuildIndexPending ==
  /\ last.op = "run"
  /\ build_index(last.rows, last.failed_at)

NextBuild == VectorizePending \/ BuildIndexPending

SpecBuild == InitBuild /\ [][NextBuild]_vars

(***************************************************************************)
(* The lookup alone: a service whose glossary holds variants written in    *)
(* capitals, in lower case and capitalized receives one detect_candidates  *)
(* request whose tokens are written in any of the three.                   *)
(***************************************************************************)
S_Conformen == << "C", "o", "n", "f", "o", "r", "m", "e", "n" >>

S_CONFORMEN == << "C", "O", "N", "F", "O", "R", "M", "E", "N" >>

S_FET == << "F", "E", "T" >>

\* the spellings of one string, by case
CaseFamilies ==
  { { S_conformen, S_Conformen, S_CONFORMEN }, { S_fet, S_Fet, S_FET } }

EntryConformen == RawEntry("V007", S_formar, << S_Conformen >>, << "v", "e", "r", "b" >>)

EntryFET == RawEntry("L003", << "f", "e", "r" >>, << S_FET >>, << >>)

CaseGlossaries ==
  { << EntryConformen >>, << EntryFet >>, << EntryFET, EntryConformen >>,
    << EntryConformen, EntryFormar >> }

CaseTokens ==
  { Token(S_conformen, S_conformar, "VERB", FALSE),
    Token(S_Conformen, S_conformar, "VERB", FALSE),
    Token(S_CONFORMEN, S_CONFORMEN, "PROPN", FALSE),
    Token(S_fet, S_fet, "NOUN", FALSE),
    Token(S_Fet, S_fet, "NOUN", FALSE),
    Token(S_FET, S_FET, "PROPN", FALSE) }

MaxCaseTokens == 2

CaseDocs == UNION { [1..n -> CaseTokens] : n \in 1..MaxCaseTokens }

InitCase ==
  \E glossary \in CaseGlossaries, doc \in CaseDocs,
     context_window \in 0..MaxContextWindow :
    LET p == prepare_glossary_for_vectorization(glossary) IN
    /\ phase = "up"
    /\ model = Some(MODEL_NAME)
    /\ nlp_model = Some("ca_core_news_trf")
    /\ index = Some(IndexOf(p.texts))
    /\ glossari = Some(p.glossari)
    /\ variants_lookup = Some(build_variants_lookup(p.glossari))
    /\ index_file = index
    /\ metadata_file = glossari
    /\ last = [NoCall EXCEPT !.op = "request", !.doc = doc,
                             !.context_window = context_window]

NextCase == DetectPending

SpecCase == InitCase /\ [][NextCase]_vars

(***************************************************************************)
(* The single-token pass alone: one detect_candidates request whose tokens *)
(* have lemmas other than their texts, parts of speech that do or do not   *)
(* agree with the entry's category, or are punctuation or whitespace.      *)
(***************************************************************************)
S_les == << "l", "e", "s" >>

S_el == << "e", "l" >>

S_entitats == << "e", "n", "t", "i", "t", "a", "t", "s" >>

S_entitat == << "e", "n", "t", "i", "t", "a", "t" >>

S_que == << "q", "u", "e" >>

S_sector == << "s", "e", "c", "t", "o", "r" >>

S_fer == << "f", "e", "r" >>

S_amp == << "&" >>

S_verb == << "v", "e", "r", "b" >>

\* "les entitats que conformen el sector", as the lemmatizer returns it
DocConformen ==
  << Token(S_les, S_el, "DET", FALSE), Token(S_entitats, S_entitat, "NOUN", FALSE),
     Token(S_que, S_que, "PRON", FALSE), TokConformen,
     Token(S_el, S_el, "DET", FALSE), Token(S_sector, S_sector, "NOUN", FALSE) >>

EntryFer == RawEntry("V001", << "d", "u", "r" >>, << S_fer >>, S_verb)

EntryAmp == RawEntry("A001", S_i, << S_amp >>, << >>)

LemmaGlossaries ==
  { << EntryFormar >>, << EntryFormar, EntryFet, EntryFer >>,
    << EntryFer, EntryFet, EntryAmp >> }

\* "conformen" tagged as a noun
TokConformenNoun == Token(S_conformen, S_conformar, "NOUN", FALSE)

\* "fet" as a form of the verb "fer"
TokFetVerb == Token(S_fet, S_fer, "VERB", FALSE)

TokAmp == Token(S_amp, S_amp, "CCONJ", TRUE)

TokSpace == [ Token(SPACE, SPACE, "SPACE", FALSE) EXCEPT !.is_space = TRUE ]

LemmaTokens ==
  { TokConformen, TokConformenNoun, TokFetVerb, TokFet, TokI, TokAmp,
    TokSpace }

MaxLemmaTokens == 3

LemmaDocs ==
  { DocConformen } \cup UNION { [1..n -> LemmaTokens] : n \in 0..MaxLemmaTokens }

InitLemma ==
  \E glossary \in LemmaGlossaries, doc \in LemmaDocs,
     context_window \in 0..MaxContextWindow :
    LET p == prepare_glossary_for_vectorization(glossary) IN
    /\ phase = "up"
    /\ model = Some(MODEL_NAME)
    /\ nlp_model = Some("ca_core_news_trf")
    /\ index = Some(IndexOf(p.texts))
    /\ glossari = Some(p.glossari)
    /\ variants_lookup = Some(build_variants_lookup(p.glossari))
    /\ index_file = index
    /\ metadata_file = glossari
    /\ last = [NoCall EXCEPT !.op = "request", !.doc = doc,
                             !.context_window = context_window]

NextLemma == DetectPending

SpecLemma == InitLemma /\ [][NextLemma]_vars

(***************************************************************************)
(* Readiness: the service with glossaries whose entries have variants or   *)
(* have none, and the calls that report or depend on readiness.            *)
(***************************************************************************)
\* an entry without variants
EntryNoVariants == RawEntry("N001", S_formar, << >>, << >>)

ReadyGlossaries == { << >>, << EntryBlank >>, << EntryNoVariants >>, << EntryFet >> }

ReadyDocs == { << >>, << TokFet >> }

NextReady ==
  \/ \E model_ok \in BOOLEAN, spacy \in SpacyModels : Startup(model_ok, spacy)
  \/ Restart
  \/ \E glossary \in ReadyGlossaries, fail \in FailPoints :
       Vectorize(glossary, fail)
  \/ ReloadVariants
  \/ Health
  \/ \E hits \in FaissHits(1, 1, ServiceScores) :
       Search(<< "q1" >>, 1, 80, hits)
  \/ \E doc \in ReadyDocs, raises \in BOOLEAN :
       DetectCandidates(doc, 0, raises)

SpecReady == Init /\ [][NextReady]_vars

(***************************************************************************)
(* Properties.                                                             *)
(***************************************************************************)
\* What the normalizer makes of the glossary of the last vectorize request.
LastBuild == prepare_glossary_for_vectorization(last.glossary)

VectorizeSucceeded == last.op = "vectorize" /\ last.status = 200

\* C1: a successful rebuild publishes the index, the entry store and the
\* variant lookup of the new build together: in the state a call finds after
\* the rebuild (there is none in between, the handler runs without
\* suspension) all three are those of the request's glossary.
C1_AtomicPublish ==
  VectorizeSucceeded =>
    /\ index = Some(IndexOf(LastBuild.texts))
    /\ glossari = Some(LastBuild.glossari)
    /\ variants_lookup = Some(build_variants_lookup(LastBuild.glossari))

C1_Witness ==
  /\ VectorizeSucceeded
  /\ Len(Val(glossari)) = 2
  /\ Len(last.glossary) = 3

\* C2: a rebuild that fails at any step leaves the in-memory index, entry
\* store and variant lookup as they were and answers with an error.
C2_FailedRebuildKeepsGeneration ==
  [][ (last'.op = "vectorize" /\ last'.status # 200) =>
        /\ UNCHANGED generation
        /\ last'.status \in {400, 500}
        /\ last'.detail # "" ]_vars

\* C3: a rebuild request with an empty glossary list is answered with a
\* failure carrying an error message and changes neither the published
\* generation nor the persisted files.
C3_EmptyRebuildRejected ==
  [][ (last'.op = "vectorize" /\ last'.glossary = << >>) =>
        /\ last'.status # 200
        /\ ~last'.success
        /\ last'.detail # ""
        /\ UNCHANGED << generation, files >> ]_vars

C3_Witness ==
  /\ last.op = "vectorize"
  /\ last.glossary = << >>
  /\ last.status = 400
  /\ ~IsNone(index) /\ ~IsNone(glossari) /\ ~IsNone(variants_lookup)
  /\ ~IsNone(index_file) /\ ~IsNone(metadata_file)

\* text starts with prefix
StartsWith(text, prefix) ==
  Len(prefix) <= Len(text) /\ SubSeq(text, 1, Len(prefix)) = prefix

\* C4: whenever the index and the entry store are both loaded they are of the
\* same build: as many vectors as entries, the vector at each position
\* computed from the entry at that position.
C4_IndexParallelToStore ==
  (~IsNone(index) /\ ~IsNone(glossari)) =>
    /\ ntotal(Val(index)) = Len(Val(glossari))
    /\ \A i \in 1..Len(Val(glossari)) :
         StartsWith(Val(index).vecs[i].of, Val(glossari)[i].terme_recomanat)

\* C5: the variant lookup is build_variants_lookup of the loaded entry store,
\* and is absent when no store is loaded.
C5_LookupOfStore ==
  variants_lookup =
    IF IsNone(glossari) THEN None
    ELSE Some(build_variants_lookup(Val(glossari)))

C5_Witness ==
  /\ last.op = "startup"
  /\ ~IsNone(glossari)
  /\ DictLen(Val(variants_lookup)) = 3

\* The number of tokens of a candidate: the window whose joined text is the
\* candidate's term (a longer window has a longer text), one for a token.
SpanSize(c, doc) ==
  IF c.pos_tag = "MWE"
  THEN CHOOSE n \in 2..4 :
         /\ c.position + n <= Len(doc)
         /\ JoinTexts(Slice(doc, c.position, c.position + n)) = c.term
  ELSE 1

Covered(c, doc) == c.position..(c.position + SpanSize(c, doc) - 1)

DetectSucceeded == last.op = "detect" /\ last.status = 200 /\ last.success

\* C6: no token position is covered by two candidates; every window of 4, 3
\* or 2 tokens whose text is a variant is either emitted or overlaps an
\* emitted candidate at least as long; with variants "fet i fet" and "fet",
\* the tokens "fet i fet" give the 3-gram alone.
C6_LongestFirstNoOverlap ==
  DetectSucceeded =>
    LET cs     == last.candidates
        doc    == last.doc
        lookup == Val(variants_lookup)
    IN  /\ \A a, b \in 1..Len(cs) :
             a # b => Covered(cs[a], doc) \cap Covered(cs[b], doc) = {}
        /\ \A m \in 2..4 : \A i \in 0..(Len(doc) - m) :
             Lower(JoinTexts(Slice(doc, i, i + m))) \in DOMAIN lookup =>
               \E a \in 1..Len(cs) :
                 /\ SpanSize(cs[a], doc) >= m
                 /\ Covered(cs[a], doc) \cap (i..(i + m - 1)) # {}
        /\ (doc = << TokFet, TokI, TokFet >>
              /\ { S_fet_i_fet, S_fet } \subseteq DOMAIN lookup) =>
             /\ Len(cs) = 1
             /\ cs[1].pos_tag = "MWE"
             /\ cs[1].term = S_fet_i_fet
             /\ cs[1].position = 0

C6_Witness ==
  /\ DetectSucceeded
  /\ last.doc = << TokFet, TokI, TokFet >>
  /\ { S_fet_i_fet, S_fet } \subseteq DOMAIN Val(variants_lookup)
  /\ Len(last.candidates) = 1

\* C7: a search or detect_candidates call, whatever its outcome, leaves the
\* index, the entry store and the variant lookup as they were.
C7_QueriesDoNotWrite ==
  [][ last'.op \in {"search", "detect"} => UNCHANGED generation ]_vars

C7_Witness ==
  /\ last.op = "detect"
  /\ last.raised
  /\ ~IsNone(variants_lookup)

\* no neighbour of the i-th query passes the threshold
NoneQualifies(i) ==
  \A j \in 1..Len(last.hits[i]) :
    last.hits[i][j].idx < 0 \/ last.hits[i][j].score < last.threshold

\* C8: search answers 503 when the model, the index or the entry store is
\* not loaded; when all three are loaded, a candidate none of whose
\* neighbours qualifies gets a result with an empty matches list, not an
\* error.
C8_NotReadyOrEmptyMatches ==
  last.op = "search" =>
    IF IsNone(model) \/ IsNone(index) \/ IsNone(glossari)
    THEN last.status = 503
    ELSE \A i \in 1..Len(last.queries) :
           NoneQualifies(i) =>
             /\ last.status = 200
             /\ last.results[i].original = last.queries[i]
             /\ last.results[i].matches = << >>

\* C9: detect_candidates answers 503, and not with a fault, whenever the
\* lemmatizer or the variant lookup is missing.
C9_DetectNotReady ==
  (last.op = "detect" /\ (IsNone(nlp_model) \/ IsNone(variants_lookup))) =>
    /\ last.status = 503
    /\ ~last.fault
    /\ last.detail # ""

C9_Witness ==
  /\ last.op = "detect"
  /\ ~IsNone(nlp_model)
  /\ IsNone(variants_lookup)
  /\ last.status = 503

\* C10: when the lemmatizer raises, detect_candidates returns a result with
\* success false, no candidates and an error message; nothing propagates.
C10_LemmatizerFailureIsStructured ==
  (last.op = "detect" /\ last.raised) =>
    /\ last.status = 200
    /\ ~last.fault
    /\ ~last.success
    /\ last.candidates = << >>
    /\ ~IsNone(last.error)
    /\ Val(last.error) # ""

C10_Witness ==
  /\ last.op = "detect"
  /\ last.raised
  /\ last.nlp_model_used = "error"
  /\ ~last.success

\* The search of the last call returned its results.
SearchReturned == last.op = "search" /\ last.status = 200

\* The j-th neighbour of the i-th candidate is at a position of the store.
ValidPosition(i, j) ==
  /\ last.hits[i][j].idx >= 0
  /\ last.hits[i][j].idx < Len(Val(glossari))

\* The j-th neighbour of the i-th candidate is among that candidate's
\* matches: a match of the neighbour's entry with the neighbour's score.
AppearsInMatches(i, j) ==
  \E m \in 1..Len(last.results[i].matches) :
    /\ last.results[i].matches[m].id =
         Val(glossari)[last.hits[i][j].idx + 1].id
    /\ last.results[i].matches[m].similitud = last.hits[i][j].score

\* C11: in the results of a search, a neighbour at a valid position is among
\* its candidate's matches if and only if its score is greater than or equal
\* to the threshold; a score equal to the threshold is in, a lower one out.
C11_ThresholdInclusive ==
  SearchReturned =>
    \A i \in 1..Len(last.queries) : \A j \in 1..last.k :
      ValidPosition(i, j) =>
        (AppearsInMatches(i, j) <=> last.hits[i][j].score >= last.threshold)

C11_Witness ==
  /\ SearchReturned
  /\ last.threshold = 80
  /\ last.k = 2
  /\ last.hits[1][1].score = 80
  /\ last.hits[1][2].score = 79
  /\ ValidPosition(1, 1) /\ ValidPosition(1, 2)
  /\ AppearsInMatches(1, 1)
  /\ ~AppearsInMatches(1, 2)

\* C12: a slot with a negative position gives no match, whatever the
\* threshold: every match of a result is the entry of a slot with a position
\* of 0 or more, with that slot's score, and a result has no more matches
\* than its row has such slots.
C12_SentinelNeverMatches ==
  SearchReturned =>
    \A i \in 1..Len(last.queries) :
      LET row     == last.hits[i]
          matches == last.results[i].matches
          found   == { j \in 1..Len(row) : row[j].idx >= 0 }
      IN  /\ Len(matches) <= Cardinality(found)
          /\ \A m \in 1..Len(matches) :
               \E j \in found :
                 /\ row[j].idx < Len(Val(glossari))
                 /\ matches[m].similitud = row[j].score
                 /\ matches[m].id = Val(glossari)[row[j].idx + 1].id

C12_Witness ==
  /\ SearchReturned
  /\ last.threshold <= NoNeighbourScore
  /\ last.k = 2
  /\ last.hits[1][1].idx = 0
  /\ last.hits[1][2].idx = -1
  /\ last.hits[1][2].score >= last.threshold
  /\ Len(last.results[1].matches) = 1

\* C13: a search returns one result per candidate, in the order of the
\* request, each with its candidate as original; the matches of a result
\* are neighbours of its row in the row's order, so by descending score.
C13_ResultsInInputOrder ==
  SearchReturned =>
    /\ Len(last.results) = Len(last.queries)
    /\ \A i \in 1..Len(last.queries) :
         LET row     == last.hits[i]
             matches == last.results[i].matches
         IN  /\ last.results[i].original = last.queries[i]
             /\ \E f \in [1..Len(matches) -> 1..Len(row)] :
                  /\ \A a, b \in 1..Len(matches) : a < b => f[a] < f[b]
                  /\ \A m \in 1..Len(matches) :
                       /\ row[f[m]].idx >= 0
                       /\ row[f[m]].idx < Len(Val(glossari))
                       /\ matches[m].similitud = row[f[m]].score
                       /\ matches[m].id =
                            Val(glossari)[row[f[m]].idx + 1].id
             /\ \A m \in 1..(Len(matches) - 1) :
                  matches[m].similitud >= matches[m + 1].similitud

C13_Witness ==
  /\ SearchReturned
  /\ last.queries = << "q1", "q2" >>
  /\ last.k = 2
  /\ Len(last.results[1].matches) = 2
  /\ last.results[1].matches[1].similitud = last.results[1].matches[2].similitud
  /\ last.results[1].matches[1].id # last.results[1].matches[2].id
  /\ Len(last.results[2].matches) = 1

\* The last call is a rebuild whose request has entries, none of them usable.
NoUsableEntries(call) ==
  /\ call.op = "vectorize"
  /\ ~EmptyRequest(call.glossary)
  /\ Len(prepare_glossary_for_vectorization(call.glossary).glossari) = 0

\* C14: when the normalizer keeps no entry, build_index_from_data returns to
\* its caller a result with success false and an error message, has embedded
\* nothing, and has written neither the index file nor the entry store file.
C14_NoEntriesStructuredFailure ==
  [][ NoUsableEntries(last') =>
        /\ ~IsNone(last'.build)
        /\ ~Val(last'.build).success
        /\ Val(last'.build).error # ""
        /\ Val(last'.build).embedded = 0
        /\ UNCHANGED files ]_vars

C14_Witness ==
  /\ NoUsableEntries(last)
  /\ last.glossary = << EntryBlank, EntryNoTerm >>
  /\ ~IsNone(last.build)
  /\ ~IsNone(index_file) /\ ~IsNone(metadata_file)

\* C15: a rebuild request with no entries, or with entries none of which is
\* usable after normalization, is answered with a client-input error (a
\* status of the 4xx class).
C15_EmptyInputIsClientError ==
  (last.op = "vectorize"
     /\ (EmptyRequest(last.glossary) \/ NoUsableEntries(last))) =>
    last.status \in 400..499

\* the keys an excluded raw entry with identifier id and these variants would
\* have put in the lookup are not there on its account
NoKeyOf(lookup, id, variants) ==
  \A i \in 1..Len(variants) :
    VariantKey(variants[i]) \in DOMAIN lookup =>
      lookup[VariantKey(variants[i])].id # id

\* an entry store and the lookup built from it hold nothing of the raw
\* entries (identifier, term, variants) whose term is empty after trimming
ExcludesEmptyTerms(store, lookup, raw) ==
  /\ \A i \in 1..Len(store) : Len(store[i].terme_recomanat) > 0
  /\ \A r \in 1..Len(raw) :
       Len(Strip(raw[r].terme)) = 0 =>
         /\ \A i \in 1..Len(store) : store[i].id # raw[r].id
         /\ NoKeyOf(lookup, raw[r].id, raw[r].variants)

\* the raw entries of a vectorize request
RawOfGlossary(glossary) ==
  [ i \in 1..Len(glossary) |->
      [ id       |-> glossary[i].id,
        terme    |-> glossary[i].terme_recomanat,
        variants |-> glossary[i].variants_no_normatives.val ] ]

\* the raw entries of a CSV file: an empty field is an empty term
RawOfCsv(rows) ==
  [ i \in 1..Len(rows) |->
      [ id       |-> Val(rows[i].ID),
        terme    |-> IF IsNone(rows[i].Terme_recomanat) THEN << >>
                     ELSE Val(rows[i].Terme_recomanat),
        variants |-> IF IsNone(rows[i].Terme_no_normatiu) THEN << >>
                     ELSE SplitComma(Val(rows[i].Terme_no_normatiu), << >>) ] ]

\* C16: an entry whose recommended term is empty after trimming is left out
\* by the normalizer of either build: the entry store holds no entry with an
\* empty recommended term and no entry of such a raw entry, and the lookup
\* built from the store has no key on account of such an entry's variants.
C16_EmptyTermExcluded ==
  /\ VectorizeSucceeded =>
       ExcludesEmptyTerms(Val(glossari), Val(variants_lookup),
                          RawOfGlossary(last.glossary))
  /\ (last.op = "build_index" /\ last.success) =>
       ExcludesEmptyTerms(Val(metadata_file),
                          build_variants_lookup(Val(metadata_file)),
                          RawOfCsv(Val(last.rows)))

\* C19: every variant stored in an entry of the entry store, loaded or on
\* disk, is a non-empty string without leading or trailing whitespace.
C19_VariantsTrimmedNonEmpty ==
  \A store \in { glossari, metadata_file } :
    ~IsNone(store) =>
      \A i \in 1..Len(Val(store)) :
        \A j \in 1..Len(Val(store)[i].variants_no_normatives) :
          LET v == Val(store)[i].variants_no_normatives[j]
          IN  Len(v) > 0 /\ Strip(v) = v

\* the variants of the loaded entry store
StoredVariants ==
  UNION { { Val(glossari)[i].variants_no_normatives[j] :
              j \in 1..Len(Val(glossari)[i].variants_no_normatives) } :
          i \in 1..Len(Val(glossari)) }

\* the candidate of the last result at token position i, as a set
CandidatesAt(i) ==
  { c \in { last.candidates[n] : n \in 1..Len(last.candidates) } :
      c.position = i }

\* C17: when a variant is in the glossary, every spelling of it by case
\* (capitals, lower case, capitalized), lowercased as the detector does, is a
\* key of the lookup and gives the record of that variant; a token written
\* in any of the spellings is a candidate, and resolves to that record's
\* entry when it was matched by its text.
C17_KeysCaseInsensitive ==
  DetectSucceeded =>
    \A family \in CaseFamilies : \A v \in family \cap StoredVariants :
      LET lookup == Val(variants_lookup)
          record == lookup[VariantKey(v)]
      IN  /\ VariantKey(v) \in DOMAIN lookup
          /\ \A t \in family :
               /\ Lower(t) \in DOMAIN lookup
               /\ lookup[Lower(t)] = record
               /\ \A i \in 1..Len(last.doc) :
                    last.doc[i].text = t =>
                      /\ CandidatesAt(i - 1) # {}
                      /\ \A c \in CandidatesAt(i - 1) :
                           /\ c.term = t
                           /\ c.lemma = Lower(t) =>
                                /\ c.glossary_id = record.id
                                /\ c.terme_recomanat = record.terme_recomanat

C17_Witness ==
  /\ DetectSucceeded
  /\ S_Conformen \in StoredVariants
  /\ Len(last.doc) = 2
  /\ last.doc[1].text = S_CONFORMEN
  /\ last.doc[2].text = S_conformen
  /\ Len(last.candidates) = 2
  /\ last.candidates[1].glossary_id = "V007"
  /\ last.candidates[1].lemma = S_conformen
  /\ last.candidates[2].glossary_id = "V007"

\* the places <<i, j>> of the store where variant j of entry i has this key
Occurrences(store, key) ==
  { o \in UNION { { << i, j >> :
                      j \in 1..Len(store[i].variants_no_normatives) } :
                  i \in 1..Len(store) } :
      /\ Len(store[o[1]].variants_no_normatives[o[2]]) > 0
      /\ Strip(Lower(store[o[1]].variants_no_normatives[o[2]])) = key }

\* o is before or at p, in entry order and then in variant order
Before(o, p) == o[1] < p[1] \/ (o[1] = p[1] /\ o[2] <= p[2])

\* the last place of a non-empty set of places
LastOccurrence(places) == CHOOSE p \in places : \A o \in places : Before(o, p)

\* C18: the lookup has one record per lowercased, trimmed variant of the
\* loaded store, and the record of a key is that of the last variant with
\* that key, in entry order and within an entry in variant order.
C18_LastVariantWins ==
  ~IsNone(glossari) =>
    LET store  == Val(glossari)
        lookup == Val(variants_lookup)
    IN  /\ \A i \in 1..Len(store) :
             \A j \in 1..Len(store[i].variants_no_normatives) :
               LET v == store[i].variants_no_normatives[j]
               IN  Len(v) > 0 => Strip(Lower(v)) \in DOMAIN lookup
        /\ \A key \in DOMAIN lookup :
             /\ Occurrences(store, key) # {}
             /\ LET p == LastOccurrence(Occurrences(store, key)) IN
                /\ lookup[key].id = store[p[1]].id
                /\ lookup[key].terme_recomanat = store[p[1]].terme_recomanat
                /\ lookup[key].variant_original =
                     store[p[1]].variants_no_normatives[p[2]]

C18_Witness ==
  /\ VectorizeSucceeded
  /\ last.glossary = << EntrySpaces, EntryFet, EntryTwice >>
  /\ Cardinality(Occurrences(Val(glossari), S_fet)) = 5
  /\ Val(variants_lookup)[S_fet].id = "T001"
  /\ Val(variants_lookup)[S_fet].variant_original = << "F", "E", "T" >>
  /\ DictLen(Val(variants_lookup)) = 3

\* C20: the candidates of a successful detect_candidates result are in the
\* order of their start positions, whichever pass found them.
C20_CandidatesByPosition ==
  DetectSucceeded =>
    \A a, b \in 1..Len(last.candidates) :
      a < b => last.candidates[a].position <= last.candidates[b].position

C20_Witness ==
  /\ DetectSucceeded
  /\ last.doc = << TokConformen, TokFet, TokI, TokFet >>
  /\ Len(last.candidates) = 2
  /\ last.candidates[1].pos_tag = "VERB"
  /\ last.candidates[1].position = 0
  /\ last.candidates[2].pos_tag = "MWE"
  /\ last.candidates[2].position = 1

\* token position i is inside a multi-word candidate of the last result
InMwe(i) ==
  \E n \in 1..Len(last.candidates) :
    /\ last.candidates[n].pos_tag = "MWE"
    /\ i \in Covered(last.candidates[n], last.doc)

\* the single-token candidates of the last result at token position i
SinglesAt(i) == { c \in CandidatesAt(i) : c.pos_tag # "MWE" }

\* c is a candidate made of this record of the lookup, matched by this key
OfRecord(c, key, record) ==
  /\ c.lemma = key
  /\ c.glossary_id = record.id
  /\ c.terme_recomanat = record.terme_recomanat
  /\ c.categoria = record.categoria

\* C21: a token (not punctuation or whitespace, not inside a multi-word
\* match) whose lowercased lemma is a key of the lookup while its lowercased
\* text is not gives one candidate at its position, with the recommended
\* term of the lemma's record; "les entitats que conformen el sector" with
\* the entry formar/[conformar] gives one candidate, "conformen" at
\* position 3, with recommended term "formar".
C21_LemmaMatch ==
  DetectSucceeded =>
    LET lookup == Val(variants_lookup) IN
    /\ \A i \in 1..Len(last.doc) :
         LET t == last.doc[i] IN
         ( /\ Lower(t.lemma_) \in DOMAIN lookup
           /\ Lower(t.text) \notin DOMAIN lookup
           /\ ~t.is_punct /\ ~t.is_space
           /\ ~InMwe(i - 1) ) =>
           /\ Cardinality(CandidatesAt(i - 1)) = 1
           /\ \A c \in CandidatesAt(i - 1) :
                /\ c.term = t.text
                /\ OfRecord(c, Lower(t.lemma_), lookup[Lower(t.lemma_)])
    /\ (last.doc = DocConformen /\ DOMAIN lookup = { S_conformar }) =>
         /\ Len(last.candidates) = 1
         /\ last.candidates[1].term = S_conformen
         /\ last.candidates[1].position = 3
         /\ last.candidates[1].terme_recomanat = S_formar

C21_Witness ==
  /\ DetectSucceeded
  /\ last.doc = DocConformen
  /\ DOMAIN Val(variants_lookup) = { S_conformar }
  /\ Len(last.candidates) = 1
  /\ last.candidates[1].position = 3

\* C24: in the single-token pass a token that is punctuation, whitespace or
\* inside a multi-word match gives no candidate; any other token gives the
\* candidate of its lowercased lemma's record when the lemma is a key, else
\* that of its lowercased text's record when the text is a key, else none.
C24_LemmaFirst ==
  DetectSucceeded =>
    LET lookup == Val(variants_lookup) IN
    \A i \in 1..Len(last.doc) :
      LET t     == last.doc[i]
          lemma == Lower(t.lemma_)
          text  == Lower(t.text)
          cs    == SinglesAt(i - 1)
      IN  IF t.is_punct \/ t.is_space \/ InMwe(i - 1) THEN cs = {}
          ELSE IF lemma \in DOMAIN lookup
          THEN Cardinality(cs) = 1
               /\ \A c \in cs : OfRecord(c, lemma, lookup[lemma])
          ELSE IF text \in DOMAIN lookup
          THEN Cardinality(cs) = 1
               /\ \A c \in cs : OfRecord(c, text, lookup[text])
          ELSE cs = {}

C24_Witness ==
  /\ DetectSucceeded
  /\ last.doc = << TokFetVerb, TokAmp >>
  /\ { S_fer, S_fet, S_amp } \subseteq DOMAIN Val(variants_lookup)
  /\ Val(variants_lookup)[S_fet].id = "L001"
  /\ Len(last.candidates) = 1
  /\ last.candidates[1].term = S_fet
  /\ last.candidates[1].lemma = S_fer
  /\ last.candidates[1].glossary_id = "V001"

\* the document with every token tagged as a verb
AsVerbs(doc) == [ i \in 1..Len(doc) |-> [ doc[i] EXCEPT !.pos_ = "VERB" ] ]

\* the candidates with the single-token ones tagged as their tokens are in doc
TaggedAs(cs, doc) ==
  [ n \in 1..Len(cs) |->
      IF cs[n].pos_tag = "MWE" THEN cs[n]
      ELSE [ cs[n] EXCEPT !.pos_tag = doc[cs[n].position + 1].pos_ ] ]

TextOfRange(doc, lo, hi) ==
  Join([ j \in 1..(hi - lo) |-> doc[lo + j].text ], SPACE)

\* C26: the context of a candidate that starts at position start and spans n
\* tokens, for a window of w, is the text of a range of tokens lo .. hi - 1
\* inside the document that holds the whole span and reaches w tokens before
\* it, or the first token if there are fewer, and w tokens after it, or the
\* last token if there are fewer.
C26_ContextWindow ==
  DetectSucceeded =>
    \A m \in 1..Len(last.candidates) :
      LET c     == last.candidates[m]
          doc   == last.doc
          w     == last.context_window
          start == c.position
          n     == SpanSize(c, doc)
      IN  \E lo \in 0..start : \E hi \in (start + n)..Len(doc) :
            /\ c.context = TextOfRange(doc, lo, hi)
            /\ start - lo <= w
            /\ hi - (start + n) <= w
            /\ lo = 0 \/ start - lo = w
            /\ hi = Len(doc) \/ hi - (start + n) = w

C26_Witness ==
  /\ DetectSucceeded
  /\ last.context_window = 1
  /\ last.doc = << TokConformen, TokComma, TokFet, TokI, TokFet >>
  /\ Len(last.candidates) = 2
  /\ last.candidates[1].context = S_conformen \o << " ", "," >>
  /\ last.candidates[2].pos_tag = "MWE"
  /\ last.candidates[2].context = << ",", " " >> \o S_fet_i_fet

\* the raw entry has a recommended term
HasTerm(entry) == Len(Strip(entry.terme_recomanat)) > 0

\* the raw entries of a request that the entry store has entries for
Kept(glossary) == SelectSeq(glossary, HasTerm)

\* the k-th of the examples, trimmed, or the empty text
Retained(examples, k) ==
  IF k <= Len(examples) THEN Strip(examples[k]) ELSE << >>

\* C22: the entry of every raw entry with a term is in the entry store, with
\* the first three correct examples and the first two incorrect examples of
\* the raw entry, in their order, and the request succeeds however many
\* examples the raw entry has.
C22_ExamplesCapped ==
  (last.op = "vectorize" /\ last.failed_at = "none"
     /\ Len(Kept(last.glossary)) > 0) =>
    /\ last.status = 200
    /\ Len(Val(glossari)) = Len(Kept(last.glossary))
    /\ \A i \in 1..Len(Val(glossari)) :
         LET entry == Val(glossari)[i]
             raw   == Kept(last.glossary)[i]
         IN  /\ entry.id = raw.id
             /\ entry.exemple_1 = Retained(raw.exemples_correctes, 1)
             /\ entry.exemple_2 = Retained(raw.exemples_correctes, 2)
             /\ entry.exemple_3 = Retained(raw.exemples_correctes, 3)
             /\ entry.exemple_incorrecte_1 =
                  Retained(raw.exemples_incorrectes, 1)
             /\ entry.exemple_incorrecte_2 =
                  Retained(raw.exemples_incorrectes, 2)

C22_Witness ==
  /\ VectorizeSucceeded
  /\ Len(last.glossary) = 3
  /\ Len(last.glossary[2].exemples_correctes) = 4
  /\ Len(last.glossary[2].exemples_incorrectes) = 3
  /\ Val(glossari)[1].exemple_1 = << "c", "x" >>
  /\ Val(glossari)[1].exemple_3 = << "c", "x", "x", "x" >>
  /\ Val(glossari)[1].exemple_incorrecte_2 = << "w", "x", "x" >>

\* the text of a term, variants, incorrect examples and a usage context, in
\* this order, without a context that is empty or the placeholder
SynthesizedText(terme, variants, incorrect, context) ==
  Join(<< terme >> \o variants \o incorrect
         \o (IF context = << >> \/ context = NAN THEN << >>
             ELSE << context >>),
       SPACE)

\* the index is of the synthesized texts of the store's entries, one per
\* entry at the entry's position; incorrect[i] are the incorrect examples
IndexOfSynthesized(idx, store, incorrect) ==
  /\ ntotal(idx) = Len(store)
  /\ \A i \in 1..Len(store) :
       idx.vecs[i].of =
         SynthesizedText(store[i].terme_recomanat,
                         store[i].variants_no_normatives,
                         incorrect[i], store[i].context_d_us)

\* the incorrect examples a request gives for each entry of the store
IncorrectOfGlossary(glossary) ==
  [ i \in 1..Len(Kept(glossary)) |->
      MapStrip(NonEmpty(Kept(glossary)[i].exemples_incorrectes)) ]

\* the incorrect examples of the entries of a store built from a CSV file
IncorrectOfStore(store) ==
  [ i \in 1..Len(store) |->
      NonEmpty(<< store[i].exemple_incorrecte_1,
                  store[i].exemple_incorrecte_2 >>) ]

\* C23: after a build from a request or from the CSV file, the text embedded
\* for every entry of the store is its recommended term, its variants, its
\* incorrect examples and its usage context, in this order, the context left
\* out when empty or the placeholder; one text per entry, at its position.
C23_SynthesizedText ==
  /\ VectorizeSucceeded =>
       IndexOfSynthesized(Val(index), Val(glossari),
                          IncorrectOfGlossary(last.glossary))
  /\ (last.op = "build_index" /\ last.success) =>
       IndexOfSynthesized(Val(index_file), Val(metadata_file),
                          IncorrectOfStore(Val(metadata_file)))

\* C27: a detect_candidates call that follows a health report of
\* ready_for_nlp_detection is not answered 503, and a search call that
\* follows a health report of ready_for_search is not answered 503.
C27_HealthAgreesWithQueries ==
  [][ /\ (last.op = "health" /\ last.ready_for_nlp_detection
            /\ last'.op = "detect") => last'.status # 503
      /\ (last.op = "health" /\ last.ready_for_search
            /\ last'.op = "search") => last'.status # 503 ]_vars

\* C28: the index file and the entry store file are of one build: both are
\* there or neither is, the index has a vector for every entry of the store,
\* at the entry's position, and a start that loads them gets an index and an
\* entry store of equal length.
C28_FilesOfOneBuild ==
  /\ IsNone(index_file) <=> IsNone(metadata_file)
  /\ (~IsNone(index_file) /\ ~IsNone(metadata_file)) =>
       /\ ntotal(Val(index_file)) = Len(Val(metadata_file))
       /\ \A i \in 1..Len(Val(metadata_file)) :
            StartsWith(Val(index_file).vecs[i].of,
                       Val(metadata_file)[i].terme_recomanat)
  /\ (last.op = "startup" /\ ~IsNone(index) /\ ~IsNone(glossari)) =>
       ntotal(Val(index)) = Len(Val(glossari))

====
